---- MODULE Spec2Model ----
(***************************************************************************)
(* A model of RTCHelper (packages/conversational-ai/helper/rtc.ts): the    *)
(* singleton session facade over the Agora RTC SDK.                        *)
(*                                                                         *)
(* Every async method is split at its await: the part before the await is  *)
(* one step (X...Call), the continuation after the SDK promise settles is  *)
(* another (X...Resolve / X...Reject).  JavaScript runs each part to        *)
(* completion, so each part is one atomic action.  The SDK itself (client, *)
(* tracks, timers, animation frames) is the environment: its promises      *)
(* settle either way and its callbacks arrive in any order.                *)
(***************************************************************************)
EXTENDS Integers, Sequences, FiniteSets, Bags, TLC

VARIABLES
    instance,              \* RTCHelper.instance (static): 0 is null, else an object id
    created,               \* number of RTCHelper objects constructed so far (ids 1..created)
    client,                \* this.client: "null" or "client"
    localAudioTrack,       \* this.localAudioTrack: "null" or "track"
    localVideoTrack,       \* this.localVideoTrack: "null" or "track"
    connectionState,       \* this.connectionState
    volumeIntervalRef,     \* this.volumeIntervalRef: 0 is null, else a timer handle
    shouldSubscribeAudio,  \* this.shouldSubscribeAudio: optional predicate on uids
    shouldSubscribeVideo,  \* this.shouldSubscribeVideo: optional predicate on uids
    appId,                 \* this.appId
    channel,               \* this.channel
    token,                 \* this.token: "null" or a token
    sessionUid,            \* this.uid (uid names the remote user of a callback)
    timers,                \* runtime: the live setInterval handles each object created
    pending,               \* runtime: bag of SDK promises awaited by suspended methods
    remoteUsers,           \* SDK: client.remoteUsers (uids)
    remoteAudio,           \* SDK: the remote users whose audioTrack is set
    ptsLoops,              \* runtime: running requestAnimationFrame loops (emitPTS)
    listeners,             \* EventHelper: the listeners registered on each object
    last,                  \* history: what the most recent step did
    lastCSC,               \* history: state carried by the latest CONNECTION_STATE_CHANGED
    quiet,                 \* history: an unpublish()/leave() finished with no publish() call
                           \*          since that unpublish()/leave() was called
    cleanStops,            \* history: unpublish()/leave() calls in flight with no publish()
                           \*          call since they were made
    left,                  \* history: a leave() has resolved, with no join() call and
                           \*          no connection-state-change callback since
    detached,              \* history: the listeners that were registered on an object
                           \*          when destroy() was called on it
    got,                   \* history: the object the latest getInstance() returned (0: none)
    destroyed              \* history: the objects destroy() has been called on

vars == <<instance, created, client, localAudioTrack, localVideoTrack,
          connectionState, volumeIntervalRef, shouldSubscribeAudio,
          shouldSubscribeVideo, appId, channel, token, sessionUid,
          timers, pending, remoteUsers, remoteAudio,
          ptsLoops, listeners, last, lastCSC, quiet, cleanStops, left, detached,
          got, destroyed>>

sessionConfig == <<appId, channel, token, sessionUid>>

fields == <<client, localAudioTrack, localVideoTrack, connectionState,
            volumeIntervalRef, shouldSubscribeAudio, shouldSubscribeVideo,
            sessionConfig>>

sdkState == <<remoteUsers, remoteAudio, ptsLoops>>

singleton == <<instance, created, got, destroyed>>

stopHistory == <<quiet, cleanStops>>

(***************************************************************************)
(* Bounds of the model.                                                    *)
(***************************************************************************)
MaxInst == 3      \* RTCHelper objects ever constructed
MaxPending == 2   \* SDK promises in flight at the same time
MaxUid == 1       \* remote participants are uids 1..MaxUid
MaxLoops == 2     \* playback-position loops running at the same time

Insts == 1..MaxInst
Uids == 1..MaxUid
Listeners == {"first", "second"}     \* listeners the application registers
Media == {"audio", "video"}
SdkErrors == {"ERR_A", "ERR_B"}
Qualities == {"good", "poor"}       \* values of a network-quality sample
Streams == {"bytesA", "bytesB"}     \* contents of a data-stream message
Exceptions == {"{}", "event"}       \* an exception event with no keys, or with some

\* The values of the fields appId, channel, token and uid before init
\* (lines 21-24), and the configurations init is called with.
NoConfig == [appId |-> "", channel |-> "", token |-> "null", uid |-> 0]
ConfigA == [appId |-> "appA", channel |-> "chanA", token |-> "tokenA", uid |-> 100]
ConfigB == [appId |-> "appB", channel |-> "chanB", token |-> "null", uid |-> 200]
Configs == {ConfigA, ConfigB}

(***************************************************************************)
(* ConnectionState (../type) and the strings the SDK passes to the         *)
(* connection-state-change callback.  "UNKNOWN" stands for a string that   *)
(* is no key of the table; "constructor" for a string that is no key of    *)
(* the table either but names a property every object literal inherits.    *)
(***************************************************************************)
CS == {"disconnected", "connecting", "connected", "reconnecting", "failed"}
SdkStates == {"DISCONNECTED", "CONNECTING", "CONNECTED", "RECONNECTING",
              "DISCONNECTING"}
SdkStrings == SdkStates \cup {"UNKNOWN", "constructor"}
InheritedNames == {"constructor"}
\* The value stateMap["constructor"] evaluates to: the function Object.
InheritedValue(name) == "Object." \o name

(***************************************************************************)
(* Events and the record of a step.                                        *)
(***************************************************************************)
Ev(type) == [type |-> type, state |-> "none", uid |-> 0, media |-> "none",
             error |-> "none", uids |-> <<>>, payload |-> <<>>]
StateChanged(state) == [Ev("connection-state-changed") EXCEPT !.state = state]
ErrorEvent(err) == [Ev("error") EXCEPT !.error = err]
VolumeIndicator(uids) == [Ev("volume-indicator") EXCEPT !.uids = uids]
UserEvent(type, uid, media) == [Ev(type) EXCEPT !.uid = uid, !.media = media]
\* NETWORK_QUALITY carries the two qualities of the sample, STREAM_MESSAGE
\* the sender and the bytes.
NetworkQualityEvent(uplink, downlink) ==
    [Ev("network-quality") EXCEPT !.payload = <<uplink, downlink>>]
StreamMessageEvent(uid, stream) ==
    [Ev("stream-message") EXCEPT !.uid = uid, !.payload = <<stream>>]

NoStep == [op |-> "none", inst |-> 0, uid |-> 0, media |-> "none",
           arg |-> "none", outcome |-> "none", error |-> "none",
           set |-> "none", sdk |-> <<>>, events |-> <<>>, ret |-> {},
           payload |-> <<>>, args |-> NoConfig, listener |-> "none",
           delivered |-> {}]
Step(op, i) == [NoStep EXCEPT !.op = op, !.inst = i]

EventsOf(s, type) == SelectSeq(s, LAMBDA e : e.type = type)

\* The state carried by the last CONNECTION_STATE_CHANGED event of a step,
\* or prev when the step emitted none.
LatestCSC(prev, events) ==
    LET cs == EventsOf(events, "connection-state-changed")
    IN  IF cs = <<>> THEN prev ELSE cs[Len(cs)].state

(***************************************************************************)
(* Promises in flight.                                                     *)
(***************************************************************************)
Call(i, op, u, m) == [inst |-> i, op |-> op, uid |-> u, media |-> m]
Await(i, op) == Call(i, op, 0, "none")
InFlight(c) == BagIn(c, pending)
CanAwait == BagCardinality(pending) < MaxPending
Suspend(c) == pending (+) SetToBag({c})
Settle(c) == pending (-) SetToBag({c})

(***************************************************************************)
(* Optional subscription predicates.                                       *)
(***************************************************************************)
Absent == [present |-> FALSE, allow |-> {}]
Preds == {Absent} \cup {[present |-> TRUE, allow |-> S] : S \in SUBSET Uids}
\* this.shouldSubscribeX?.(uid) ?? true
Consult(pred, uid) == IF pred.present THEN uid \in pred.allow ELSE TRUE

(***************************************************************************)
(* Private helpers of RTCHelper, as functions of the fields they touch.    *)
(***************************************************************************)
setConnectionState_Always(cur, state) ==
    [connectionState |-> state, emitted |-> <<StateChanged(state)>>]

setConnectionState(cur, state) ==
    IF cur # state
    THEN [connectionState |-> state, emitted |-> <<StateChanged(state)>>]
    ELSE [connectionState |-> cur, emitted |-> <<>>]

\* A handle no live interval uses.
FreshTimer(live) == CHOOSE h \in 1..(Cardinality(live) + 1) : h \notin live

startVolumeMonitoring_NoGuard(ref, live) ==
    LET h == FreshTimer(live)
    IN  [ref |-> h, live |-> live \cup {h}, calls |-> <<"setInterval">>]

startVolumeMonitoring(ref, live) ==
    IF ref # 0
    THEN [ref |-> ref, live |-> live, calls |-> <<>>]
    ELSE LET h == FreshTimer(live)
         IN  [ref |-> h, live |-> live \cup {h}, calls |-> <<"setInterval">>]

stopVolumeMonitoring(ref, live) ==
    IF ref # 0
    THEN [ref |-> 0, live |-> live \ {ref}, calls |-> <<"clearInterval">>]
    ELSE [ref |-> ref, live |-> live, calls |-> <<>>]

\* stateMap[curState]: an own key, an inherited property, or undefined.
stateMap(curState) ==
    CASE curState = "DISCONNECTED" -> "disconnected"
      [] curState = "CONNECTING" -> "connecting"
      [] curState = "CONNECTED" -> "connected"
      [] curState = "RECONNECTING" -> "reconnecting"
      [] curState = "DISCONNECTING" -> "disconnected"
      [] curState \in InheritedNames -> InheritedValue(curState)
      [] OTHER -> "undefined"

\* stateMap[curState] || CS.DISCONNECTED
mappedState(curState) ==
    IF stateMap(curState) = "undefined" THEN "disconnected" ELSE stateMap(curState)

(***************************************************************************)
(* Initial state: no RTCHelper has been constructed.                       *)
(***************************************************************************)
Init ==
    /\ instance = 0
    /\ created = 0
    /\ client = [i \in Insts |-> "null"]
    /\ localAudioTrack = [i \in Insts |-> "null"]
    /\ localVideoTrack = [i \in Insts |-> "null"]
    /\ connectionState = [i \in Insts |-> "disconnected"]
    /\ volumeIntervalRef = [i \in Insts |-> 0]
    /\ shouldSubscribeAudio = [i \in Insts |-> Absent]
    /\ shouldSubscribeVideo = [i \in Insts |-> Absent]
    /\ appId = [i \in Insts |-> NoConfig.appId]
    /\ channel = [i \in Insts |-> NoConfig.channel]
    /\ token = [i \in Insts |-> NoConfig.token]
    /\ sessionUid = [i \in Insts |-> NoConfig.uid]
    /\ timers = [i \in Insts |-> {}]
    /\ pending = EmptyBag
    /\ remoteUsers = [i \in Insts |-> {}]
    /\ remoteAudio = [i \in Insts |-> {}]
    /\ ptsLoops = [i \in Insts |-> 0]
    /\ last = NoStep
    /\ lastCSC = [i \in Insts |-> "none"]
    /\ quiet = [i \in Insts |-> FALSE]
    /\ cleanStops = [i \in Insts |-> 0]
    /\ left = [i \in Insts |-> FALSE]
    /\ listeners = [i \in Insts |-> {}]
    /\ detached = [i \in Insts |-> {}]
    /\ got = 0
    /\ destroyed = {}

\* EventHelper (../utils/event), the base class of RTCHelper: emit hands an
\* event to the listeners registered at that moment, on registers one,
\* removeAllListeners forgets them all.  Registered(i, step) is the registry
\* of object i after the calls of the step.
Calls(step, name) == \E k \in 1..Len(step.sdk) : step.sdk[k] = name

Delivered(i, step) == IF step.events = <<>> THEN {} ELSE listeners[i]

Registered(i, step) ==
    CASE step.op = "on" -> listeners[i] \cup {step.listener}
      [] Calls(step, "removeAllListeners") -> {}
      [] OTHER -> listeners[i]

\* The bookkeeping every step does: record the step and who received its
\* events, the latest CONNECTION_STATE_CHANGED it emitted, whether the
\* session has been left with nothing since that is entitled to change its
\* connection state, and the listeners a destroy() found registered.
Record(i, step) ==
    /\ last' = [step EXCEPT !.delivered = Delivered(i, step)]
    /\ listeners' = [listeners EXCEPT ![i] = Registered(i, step)]
    /\ detached' = [detached EXCEPT
                      ![i] = IF step.op = "destroy" THEN @ \cup listeners[i] ELSE @]
    /\ lastCSC' = [lastCSC EXCEPT ![i] = LatestCSC(@, step.events)]
    /\ left' = [left EXCEPT
                  ![i] = CASE step.op = "leave.resolve" -> TRUE
                           [] step.op \in {"join", "connection-state-change"} -> FALSE
                           [] OTHER -> @]

(***************************************************************************)
(* The singleton: getInstance (lines 34-39) and the constructor with the   *)
(* field initializers (lines 15-32).                                       *)
(***************************************************************************)
NewRTCHelper(n) ==
    /\ client' = [client EXCEPT ![n] = "null"]
    /\ localAudioTrack' = [localAudioTrack EXCEPT ![n] = "null"]
    /\ localVideoTrack' = [localVideoTrack EXCEPT ![n] = "null"]
    /\ connectionState' = [connectionState EXCEPT ![n] = "disconnected"]
    /\ volumeIntervalRef' = [volumeIntervalRef EXCEPT ![n] = 0]
    /\ shouldSubscribeAudio' = [shouldSubscribeAudio EXCEPT ![n] = Absent]
    /\ shouldSubscribeVideo' = [shouldSubscribeVideo EXCEPT ![n] = Absent]
    /\ appId' = [appId EXCEPT ![n] = NoConfig.appId]
    /\ channel' = [channel EXCEPT ![n] = NoConfig.channel]
    /\ token' = [token EXCEPT ![n] = NoConfig.token]
    /\ sessionUid' = [sessionUid EXCEPT ![n] = NoConfig.uid]

\* cap: how many objects the heap of the model holds.
GetInstance(cap) ==
    /\ IF instance # 0
       THEN UNCHANGED <<instance, created, fields>>
       ELSE /\ created < cap
            /\ created' = created + 1
            /\ instance' = created + 1
            /\ NewRTCHelper(created + 1)
    /\ got' = instance'
    /\ last' = [Step("getInstance", instance') EXCEPT !.outcome = "returned"]
    /\ UNCHANGED <<timers, pending, sdkState, listeners, lastCSC, stopHistory,
                   left, detached, destroyed>>

(***************************************************************************)
(* init (lines 41-62).  A session object is initialized at most once.      *)
(***************************************************************************)
InitSession(i, config, audioPred, videoPred) ==
    /\ client[i] = "null"
    /\ appId' = [appId EXCEPT ![i] = config.appId]
    /\ channel' = [channel EXCEPT ![i] = config.channel]
    /\ token' = [token EXCEPT ![i] = config.token]
    /\ sessionUid' = [sessionUid EXCEPT ![i] = config.uid]
    /\ shouldSubscribeAudio' = [shouldSubscribeAudio EXCEPT ![i] = audioPred]
    /\ shouldSubscribeVideo' = [shouldSubscribeVideo EXCEPT ![i] = videoPred]
    /\ client' = [client EXCEPT ![i] = "client"]
    /\ Record(i, [Step("init", i) EXCEPT !.outcome = "resolved",
                                         !.args = config,
                                         !.sdk = <<"createClient", "client.on">>])
    /\ UNCHANGED <<singleton, localAudioTrack, localVideoTrack, connectionState,
                   volumeIntervalRef, timers, pending, sdkState, stopHistory>>

(***************************************************************************)
(* createAudioTrack (lines 64-78) and createVideoTrack (lines 80-93).      *)
(***************************************************************************)
CreateAudioTrackCall(i) ==
    /\ CanAwait
    /\ pending' = Suspend(Await(i, "createAudioTrack"))
    /\ Record(i, [Step("createAudioTrack", i) EXCEPT
                    !.outcome = "pending",
                    !.sdk = <<"createMicrophoneAudioTrack">>])
    /\ UNCHANGED <<singleton, fields, timers, sdkState, stopHistory>>

CreateAudioTrackResolve(i) ==
    /\ InFlight(Await(i, "createAudioTrack"))
    /\ pending' = Settle(Await(i, "createAudioTrack"))
    /\ localAudioTrack' = [localAudioTrack EXCEPT ![i] = "track"]
    /\ Record(i, [Step("createAudioTrack.resolve", i) EXCEPT !.outcome = "resolved"])
    /\ UNCHANGED <<singleton, client, localVideoTrack, connectionState,
                   volumeIntervalRef, shouldSubscribeAudio, shouldSubscribeVideo,
                   sessionConfig,                   
                   timers, sdkState, stopHistory>>

CreateAudioTrackReject(i, err) ==
    /\ InFlight(Await(i, "createAudioTrack"))
    /\ pending' = Settle(Await(i, "createAudioTrack"))
    /\ Record(i, [Step("createAudioTrack.reject", i) EXCEPT
                    !.outcome = "rejected", !.error = err])
    /\ UNCHANGED <<singleton, fields, timers, sdkState, stopHistory>>

CreateVideoTrackCall(i) ==
    /\ CanAwait
    /\ pending' = Suspend(Await(i, "createVideoTrack"))
    /\ Record(i, [Step("createVideoTrack", i) EXCEPT
                    !.outcome = "pending",
                    !.sdk = <<"createCameraVideoTrack">>])
    /\ UNCHANGED <<singleton, fields, timers, sdkState, stopHistory>>

CreateVideoTrackResolve(i) ==
    /\ InFlight(Await(i, "createVideoTrack"))
    /\ pending' = Settle(Await(i, "createVideoTrack"))
    /\ localVideoTrack' = [localVideoTrack EXCEPT ![i] = "track"]
    /\ Record(i, [Step("createVideoTrack.resolve", i) EXCEPT !.outcome = "resolved"])
    /\ UNCHANGED <<singleton, client, localAudioTrack, connectionState,
                   volumeIntervalRef, shouldSubscribeAudio, shouldSubscribeVideo,
                   sessionConfig,                   
                   timers, sdkState, stopHistory>>

CreateVideoTrackReject(i, err) ==
    /\ InFlight(Await(i, "createVideoTrack"))
    /\ pending' = Settle(Await(i, "createVideoTrack"))
    /\ Record(i, [Step("createVideoTrack.reject", i) EXCEPT
                    !.outcome = "rejected", !.error = err])
    /\ UNCHANGED <<singleton, fields, timers, sdkState, stopHistory>>

(***************************************************************************)
(* join (lines 95-110).                                                    *)
(***************************************************************************)
JoinCall_StateFirst(i) ==
    LET r == setConnectionState(connectionState[i], "connecting")
    IN  /\ connectionState' = [connectionState EXCEPT ![i] = r.connectionState]
        /\ IF client[i] = "null"
           THEN /\ Record(i, [Step("join", i) EXCEPT
                                !.outcome = "threw",
                                !.error = "RTC client not initialized",
                                !.set = "connecting",
                                !.events = r.emitted])
                /\ UNCHANGED pending
           ELSE /\ CanAwait
                /\ pending' = Suspend(Await(i, "join"))
                /\ Record(i, [Step("join", i) EXCEPT
                                !.outcome = "pending",
                                !.set = "connecting",
                                !.sdk = <<"client.join">>,
                                !.args = [appId |-> appId[i],
                                          channel |-> channel[i],
                                          token |-> token[i],
                                          uid |-> sessionUid[i]],
                                !.events = r.emitted])
        /\ UNCHANGED <<singleton, client, localAudioTrack, localVideoTrack,
                       volumeIntervalRef, shouldSubscribeAudio,
                       shouldSubscribeVideo, sessionConfig,
                       timers, sdkState, stopHistory>>

\* A join that passes no token to the SDK.
JoinCall_NoToken(i) ==
    IF client[i] = "null"
    THEN /\ Record(i, [Step("join", i) EXCEPT
                         !.outcome = "threw",
                         !.error = "RTC client not initialized"])
         /\ UNCHANGED <<singleton, fields, timers, pending, sdkState, stopHistory>>
    ELSE LET r == setConnectionState(connectionState[i], "connecting")
         IN  /\ CanAwait
             /\ connectionState' = [connectionState EXCEPT ![i] = r.connectionState]
             /\ pending' = Suspend(Await(i, "join"))
             /\ Record(i, [Step("join", i) EXCEPT
                             !.outcome = "pending",
                             !.set = "connecting",
                             !.sdk = <<"client.join">>,
                             !.args = [appId |-> appId[i],
                                       channel |-> channel[i],
                                       token |-> "null",
                                       uid |-> sessionUid[i]],
                             !.events = r.emitted])
             /\ UNCHANGED <<singleton, client, localAudioTrack, localVideoTrack,
                            volumeIntervalRef, shouldSubscribeAudio,
                            shouldSubscribeVideo, sessionConfig,
                            timers, sdkState, stopHistory>>

JoinCall(i) ==
    IF client[i] = "null"
    THEN /\ Record(i, [Step("join", i) EXCEPT
                         !.outcome = "threw",
                         !.error = "RTC client not initialized"])
         /\ UNCHANGED <<singleton, fields, timers, pending, sdkState, stopHistory>>
    ELSE LET r == setConnectionState(connectionState[i], "connecting")
         IN  /\ CanAwait
             /\ connectionState' = [connectionState EXCEPT ![i] = r.connectionState]
             /\ pending' = Suspend(Await(i, "join"))
             /\ Record(i, [Step("join", i) EXCEPT
                             !.outcome = "pending",
                             !.set = "connecting",
                             !.sdk = <<"client.join">>,
                             !.args = [appId |-> appId[i],
                                       channel |-> channel[i],
                                       token |-> token[i],
                                       uid |-> sessionUid[i]],
                             !.events = r.emitted])
             /\ UNCHANGED <<singleton, client, localAudioTrack, localVideoTrack,
                            volumeIntervalRef, shouldSubscribeAudio,
                            shouldSubscribeVideo, sessionConfig,
                            timers, sdkState, stopHistory>>

JoinResolve(i) ==
    LET r == setConnectionState(connectionState[i], "connected")
    IN  /\ InFlight(Await(i, "join"))
        /\ pending' = Settle(Await(i, "join"))
        /\ connectionState' = [connectionState EXCEPT ![i] = r.connectionState]
        /\ Record(i, [Step("join.resolve", i) EXCEPT
                        !.outcome = "resolved",
                        !.set = "connected",
                        !.events = r.emitted])
        /\ UNCHANGED <<singleton, client, localAudioTrack, localVideoTrack,
                       volumeIntervalRef, shouldSubscribeAudio,
                       shouldSubscribeVideo, sessionConfig,
                       timers, sdkState, stopHistory>>

JoinReject_ErrorFirst(i, err) ==
    LET r == setConnectionState(connectionState[i], "failed")
    IN  /\ InFlight(Await(i, "join"))
        /\ pending' = Settle(Await(i, "join"))
        /\ connectionState' = [connectionState EXCEPT ![i] = r.connectionState]
        /\ Record(i, [Step("join.reject", i) EXCEPT
                        !.outcome = "rejected",
                        !.error = err,
                        !.set = "failed",
                        !.events = <<ErrorEvent(err)>> \o r.emitted])
        /\ UNCHANGED <<singleton, client, localAudioTrack, localVideoTrack,
                       volumeIntervalRef, shouldSubscribeAudio,
                       shouldSubscribeVideo, sessionConfig,
                       timers, sdkState, stopHistory>>

JoinReject(i, err) ==
    LET r == setConnectionState(connectionState[i], "failed")
    IN  /\ InFlight(Await(i, "join"))
        /\ pending' = Settle(Await(i, "join"))
        /\ connectionState' = [connectionState EXCEPT ![i] = r.connectionState]
        /\ Record(i, [Step("join.reject", i) EXCEPT
                        !.outcome = "rejected",
                        !.error = err,
                        !.set = "failed",
                        !.events = r.emitted \o <<ErrorEvent(err)>>])
        /\ UNCHANGED <<singleton, client, localAudioTrack, localVideoTrack,
                       volumeIntervalRef, shouldSubscribeAudio,
                       shouldSubscribeVideo, sessionConfig,
                       timers, sdkState, stopHistory>>

(***************************************************************************)
(* History of unpublish()/leave() against publish().  The calls in flight  *)
(* are not told apart: a call that finishes while some call in flight has  *)
(* seen a publish() call since it was made counts as one of those.         *)
(***************************************************************************)
StopsInFlight(i) ==
    CopiesIn(Await(i, "unpublish"), pending) + CopiesIn(Await(i, "leave"), pending)

StopStarts(i) ==
    /\ cleanStops' = [cleanStops EXCEPT ![i] = @ + 1]
    /\ UNCHANGED quiet

StopReturns(i) ==
    /\ quiet' = [quiet EXCEPT ![i] = TRUE]
    /\ UNCHANGED cleanStops

StopFinishes(i) ==
    IF cleanStops[i] < StopsInFlight(i)
    THEN UNCHANGED <<quiet, cleanStops>>
    ELSE /\ quiet' = [quiet EXCEPT ![i] = TRUE]
         /\ cleanStops' = [cleanStops EXCEPT ![i] = @ - 1]

(***************************************************************************)
(* publish (lines 112-119) and unpublish (lines 121-126).                  *)
(***************************************************************************)
PublishCall(i) ==
    /\ IF client[i] = "null" \/ localAudioTrack[i] = "null"
       THEN /\ Record(i, [Step("publish", i) EXCEPT
                            !.outcome = "threw",
                            !.error = "Client or audio track not ready"])
            /\ UNCHANGED pending
       ELSE /\ CanAwait
            /\ pending' = Suspend(Await(i, "publish"))
            /\ Record(i, [Step("publish", i) EXCEPT
                            !.outcome = "pending",
                            !.sdk = <<"client.publish">>])
    /\ quiet' = [quiet EXCEPT ![i] = FALSE]
    /\ cleanStops' = [cleanStops EXCEPT ![i] = 0]
    /\ UNCHANGED <<singleton, fields, timers, sdkState>>

PublishResolve(i) ==
    LET r == startVolumeMonitoring(volumeIntervalRef[i], timers[i])
    IN  /\ InFlight(Await(i, "publish"))
        /\ pending' = Settle(Await(i, "publish"))
        /\ volumeIntervalRef' = [volumeIntervalRef EXCEPT ![i] = r.ref]
        /\ timers' = [timers EXCEPT ![i] = r.live]
        /\ Record(i, [Step("publish.resolve", i) EXCEPT
                        !.outcome = "resolved", !.sdk = r.calls])
        /\ UNCHANGED <<singleton, client, localAudioTrack, localVideoTrack,
                       connectionState, shouldSubscribeAudio,
                       shouldSubscribeVideo, sessionConfig,
                       sdkState, stopHistory>>

PublishReject(i, err) ==
    /\ InFlight(Await(i, "publish"))
    /\ pending' = Settle(Await(i, "publish"))
    /\ Record(i, [Step("publish.reject", i) EXCEPT
                    !.outcome = "rejected", !.error = err])
    /\ UNCHANGED <<singleton, fields, timers, sdkState, stopHistory>>

UnpublishCall(i) ==
    /\ IF client[i] = "null" \/ localAudioTrack[i] = "null"
       THEN /\ Record(i, [Step("unpublish", i) EXCEPT !.outcome = "returned"])
            /\ StopReturns(i)
            /\ UNCHANGED pending
       ELSE /\ CanAwait
            /\ pending' = Suspend(Await(i, "unpublish"))
            /\ Record(i, [Step("unpublish", i) EXCEPT
                            !.outcome = "pending",
                            !.sdk = <<"client.unpublish">>])
            /\ StopStarts(i)
    /\ UNCHANGED <<singleton, fields, timers, sdkState>>

UnpublishResolve(i) ==
    LET r == stopVolumeMonitoring(volumeIntervalRef[i], timers[i])
    IN  /\ InFlight(Await(i, "unpublish"))
        /\ pending' = Settle(Await(i, "unpublish"))
        /\ volumeIntervalRef' = [volumeIntervalRef EXCEPT ![i] = r.ref]
        /\ timers' = [timers EXCEPT ![i] = r.live]
        /\ StopFinishes(i)
        /\ Record(i, [Step("unpublish.resolve", i) EXCEPT
                        !.outcome = "resolved", !.sdk = r.calls])
        /\ UNCHANGED <<singleton, client, localAudioTrack, localVideoTrack,
                       connectionState, shouldSubscribeAudio,
                       shouldSubscribeVideo, sessionConfig, sdkState>>

UnpublishReject(i, err) ==
    /\ InFlight(Await(i, "unpublish"))
    /\ pending' = Settle(Await(i, "unpublish"))
    /\ StopFinishes(i)
    /\ Record(i, [Step("unpublish.reject", i) EXCEPT
                    !.outcome = "rejected", !.error = err])
    /\ UNCHANGED <<singleton, fields, timers, sdkState>>

(***************************************************************************)
(* leave (lines 128-150).  LeaveSync is leave() up to its await, which     *)
(* destroy() runs too; LeaveCalls are the calls it makes on the way.       *)
(***************************************************************************)
LeaveCalls(i) ==
    IF client[i] = "null"
    THEN <<>>
    ELSE stopVolumeMonitoring(volumeIntervalRef[i], timers[i]).calls
         \o (IF localAudioTrack[i] # "null"
             THEN <<"localAudioTrack.stop", "localAudioTrack.close">> ELSE <<>>)
         \o (IF localVideoTrack[i] # "null"
             THEN <<"localVideoTrack.stop", "localVideoTrack.close">> ELSE <<>>)
         \o <<"client.leave">>

LeaveSync(i) ==
    IF client[i] = "null"
    THEN /\ StopReturns(i)
         /\ UNCHANGED <<localAudioTrack, localVideoTrack, volumeIntervalRef,
                        timers, pending>>
    ELSE LET r == stopVolumeMonitoring(volumeIntervalRef[i], timers[i])
         IN  /\ CanAwait
             /\ volumeIntervalRef' = [volumeIntervalRef EXCEPT ![i] = r.ref]
             /\ timers' = [timers EXCEPT ![i] = r.live]
             /\ localAudioTrack' = [localAudioTrack EXCEPT ![i] = "null"]
             /\ localVideoTrack' = [localVideoTrack EXCEPT ![i] = "null"]
             /\ pending' = Suspend(Await(i, "leave"))
             /\ StopStarts(i)

LeaveCall(i) ==
    /\ LeaveSync(i)
    /\ Record(i, [Step("leave", i) EXCEPT
                    !.outcome = IF client[i] = "null" THEN "returned" ELSE "pending",
                    !.sdk = LeaveCalls(i)])
    /\ UNCHANGED <<singleton, client, connectionState, shouldSubscribeAudio,
                   shouldSubscribeVideo, sessionConfig, sdkState>>

LeaveResolve(i) ==
    LET r == setConnectionState(connectionState[i], "disconnected")
    IN  /\ InFlight(Await(i, "leave"))
        /\ pending' = Settle(Await(i, "leave"))
        /\ connectionState' = [connectionState EXCEPT ![i] = r.connectionState]
        /\ StopFinishes(i)
        /\ Record(i, [Step("leave.resolve", i) EXCEPT
                        !.outcome = "resolved",
                        !.set = "disconnected",
                        !.events = r.emitted])
        /\ UNCHANGED <<singleton, client, localAudioTrack, localVideoTrack,
                       volumeIntervalRef, shouldSubscribeAudio,
                       shouldSubscribeVideo, sessionConfig, timers, sdkState>>

LeaveReject(i, err) ==
    /\ InFlight(Await(i, "leave"))
    /\ pending' = Settle(Await(i, "leave"))
    /\ StopFinishes(i)
    /\ Record(i, [Step("leave.reject", i) EXCEPT
                    !.outcome = "rejected", !.error = err])
    /\ UNCHANGED <<singleton, fields, timers, sdkState>>

(***************************************************************************)
(* destroy (lines 348-352): leave() without awaiting it, then              *)
(* removeAllListeners() of EventHelper, then the static is cleared.        *)
(***************************************************************************)
\* A destroy that leaves the listeners registered.
Destroy_KeepsListeners(i) ==
    /\ LeaveSync(i)
    /\ instance' = 0
    /\ destroyed' = destroyed \cup {i}
    /\ Record(i, [Step("destroy", i) EXCEPT
                    !.outcome = "returned",
                    !.sdk = LeaveCalls(i)])
    /\ UNCHANGED <<created, got, client, connectionState, shouldSubscribeAudio,
                   shouldSubscribeVideo, sessionConfig, sdkState>>

Destroy(i) ==
    /\ LeaveSync(i)
    /\ instance' = 0
    /\ destroyed' = destroyed \cup {i}
    /\ Record(i, [Step("destroy", i) EXCEPT
                    !.outcome = "returned",
                    !.sdk = LeaveCalls(i) \o <<"removeAllListeners">>])
    /\ UNCHANGED <<created, got, client, connectionState, shouldSubscribeAudio,
                   shouldSubscribeVideo, sessionConfig, sdkState>>

(***************************************************************************)
(* on (inherited from EventHelper): the application registers a listener.  *)
(* A listener that destroy() detached is not registered again: a later     *)
(* registration is another listener.                                       *)
(***************************************************************************)
On(i, l) ==
    /\ l \notin listeners[i] \cup detached[i]
    /\ Record(i, [Step("on", i) EXCEPT !.listener = l, !.outcome = "returned"])
    /\ UNCHANGED <<singleton, fields, timers, pending, sdkState, stopHistory>>

(***************************************************************************)
(* setMuted (152-155), setVideoEnabled (161-168), getRemoteUsers (174-182).*)
(* Nothing follows the await of setEnabled, so each is one step.           *)
(***************************************************************************)
SetMuted(i, muted) ==
    /\ Record(i, IF localAudioTrack[i] = "null"
                 THEN [Step("setMuted", i) EXCEPT !.arg = muted,
                                                  !.outcome = "returned"]
                 ELSE [Step("setMuted", i) EXCEPT
                         !.arg = muted,
                         !.outcome = "pending",
                         !.sdk = <<"localAudioTrack.setEnabled">>])
    /\ UNCHANGED <<singleton, fields, timers, pending, sdkState, stopHistory>>

SetVideoEnabled(i, enabled) ==
    /\ Record(i, IF localVideoTrack[i] = "null"
                 THEN [Step("setVideoEnabled", i) EXCEPT !.arg = enabled,
                                                         !.outcome = "returned"]
                 ELSE [Step("setVideoEnabled", i) EXCEPT
                         !.arg = enabled,
                         !.outcome = "pending",
                         !.sdk = <<"localVideoTrack.setEnabled">>])
    /\ UNCHANGED <<singleton, fields, timers, pending, sdkState, stopHistory>>

GetRemoteUsers(i) ==
    /\ Record(i, [Step("getRemoteUsers", i) EXCEPT
                    !.outcome = "returned",
                    !.ret = IF client[i] = "null" THEN {} ELSE remoteUsers[i]])
    /\ UNCHANGED <<singleton, fields, timers, pending, sdkState, stopHistory>>

(***************************************************************************)
(* The connection-state-change listener (lines 257-268).  Listeners are    *)
(* attached to the client by init, so there is a client when one runs.     *)
(***************************************************************************)
ConnectionStateChange(i, curState) ==
    LET r == setConnectionState(connectionState[i], mappedState(curState))
    IN  /\ client[i] # "null"
        /\ connectionState' = [connectionState EXCEPT ![i] = r.connectionState]
        /\ Record(i, [Step("connection-state-change", i) EXCEPT
                        !.arg = curState,
                        !.outcome = "returned",
                        !.set = mappedState(curState),
                        !.events = r.emitted])
        /\ UNCHANGED <<singleton, client, localAudioTrack, localVideoTrack,
                       volumeIntervalRef, shouldSubscribeAudio,
                       shouldSubscribeVideo, sessionConfig,
                       timers, pending, sdkState, stopHistory>>

(***************************************************************************)
(* One tick of a live volume interval (lines 295-315).                     *)
(***************************************************************************)
RECURSIVE Ascending(_)
Ascending(S) ==
    IF S = {} THEN <<>>
    ELSE LET least == CHOOSE x \in S : \A y \in S : x <= y
         IN  <<least>> \o Ascending(S \ {least})

\* A callback that takes a sample of every remote user, with a track or not.
Volumes_EveryRemoteUser(i) ==
    (IF localAudioTrack[i] # "null" THEN <<sessionUid[i]>> ELSE <<>>)
    \o Ascending(remoteUsers[i])

\* The uids of the samples pushed to `volumes`, in order: the local track
\* under this.uid, then client.remoteUsers (kept here by ascending uid).
Volumes(i) ==
    (IF localAudioTrack[i] # "null" THEN <<sessionUid[i]>> ELSE <<>>)
    \o Ascending(remoteAudio[i])

VolumeTick(i) ==
    /\ timers[i] # {}
    /\ Record(i, [Step("volume-tick", i) EXCEPT
                    !.outcome = "returned",
                    !.events = IF client[i] # "null" /\ Len(Volumes(i)) > 0
                               THEN <<VolumeIndicator(Volumes(i))>>
                               ELSE <<>>])
    /\ UNCHANGED <<singleton, fields, timers, pending, sdkState, stopHistory>>

(***************************************************************************)
(* The user-published listener (lines 187-227), split at its await of      *)
(* client.subscribe.  The SDK reports media of users that are in the       *)
(* channel and settles a subscription of a user that is still there.       *)
(* startAudioPTSEmission (325-335) runs the first frame of its loop at     *)
(* once, so the step that resumes an audio subscription also emits the     *)
(* first AUDIO_PTS, after USER_PUBLISHED.                                  *)
(***************************************************************************)
shouldSubscribe_Always(i, uid, mediaType) == TRUE

shouldSubscribe_Crossed(i, uid, mediaType) ==
    IF mediaType = "audio"
    THEN Consult(shouldSubscribeVideo[i], uid)
    ELSE Consult(shouldSubscribeAudio[i], uid)

\* lines 189-191
shouldSubscribe(i, uid, mediaType) ==
    IF mediaType = "audio"
    THEN Consult(shouldSubscribeAudio[i], uid)
    ELSE Consult(shouldSubscribeVideo[i], uid)

\* A listener that announces the user before it awaits the subscription.
UserPublished_EmitFirst(i, uid, mediaType) ==
    /\ client[i] # "null"
    /\ uid \in remoteUsers[i]
    /\ IF ~shouldSubscribe(i, uid, mediaType)
       THEN /\ Record(i, [Step("user-published", i) EXCEPT
                            !.uid = uid, !.media = mediaType,
                            !.outcome = "returned"])
            /\ UNCHANGED pending
       ELSE /\ CanAwait
            /\ pending' = Suspend(Call(i, "subscribe", uid, mediaType))
            /\ Record(i, [Step("user-published", i) EXCEPT
                            !.uid = uid, !.media = mediaType,
                            !.outcome = "pending",
                            !.sdk = <<"client.subscribe">>,
                            !.events = <<UserEvent("user-published", uid, mediaType)>>])
    /\ UNCHANGED <<singleton, fields, timers, sdkState, stopHistory>>

UserPublished(i, uid, mediaType) ==
    /\ client[i] # "null"
    /\ uid \in remoteUsers[i]
    /\ IF ~shouldSubscribe(i, uid, mediaType)
       THEN /\ Record(i, [Step("user-published", i) EXCEPT
                            !.uid = uid, !.media = mediaType,
                            !.outcome = "returned"])
            /\ UNCHANGED pending
       ELSE /\ CanAwait
            /\ pending' = Suspend(Call(i, "subscribe", uid, mediaType))
            /\ Record(i, [Step("user-published", i) EXCEPT
                            !.uid = uid, !.media = mediaType,
                            !.outcome = "pending",
                            !.sdk = <<"client.subscribe">>])
    /\ UNCHANGED <<singleton, fields, timers, sdkState, stopHistory>>

SubscribeResolve(i, uid, mediaType) ==
    /\ InFlight(Call(i, "subscribe", uid, mediaType))
    /\ uid \in remoteUsers[i]
    /\ pending' = Settle(Call(i, "subscribe", uid, mediaType))
    /\ IF mediaType = "audio"
       THEN /\ ptsLoops[i] < MaxLoops
            /\ remoteAudio' = [remoteAudio EXCEPT ![i] = @ \cup {uid}]
            /\ ptsLoops' = [ptsLoops EXCEPT ![i] = @ + 1]
            /\ Record(i, [Step("subscribe.resolve", i) EXCEPT
                            !.uid = uid, !.media = mediaType,
                            !.outcome = "resolved",
                            !.sdk = <<"audioTrack.play", "audioTrack.getStats",
                                      "requestAnimationFrame">>,
                            !.events = <<UserEvent("user-published", uid, mediaType),
                                         Ev("audio-pts")>>])
       ELSE /\ Record(i, [Step("subscribe.resolve", i) EXCEPT
                            !.uid = uid, !.media = mediaType,
                            !.outcome = "resolved",
                            !.events = <<UserEvent("user-published", uid, mediaType)>>])
            /\ UNCHANGED <<remoteAudio, ptsLoops>>
    /\ UNCHANGED <<singleton, fields, timers, remoteUsers, stopHistory>>

SubscribeReject(i, uid, mediaType, err) ==
    /\ InFlight(Call(i, "subscribe", uid, mediaType))
    /\ pending' = Settle(Call(i, "subscribe", uid, mediaType))
    /\ Record(i, [Step("subscribe.reject", i) EXCEPT
                    !.uid = uid, !.media = mediaType,
                    !.outcome = "rejected", !.error = err])
    /\ UNCHANGED <<singleton, fields, timers, sdkState, stopHistory>>

(***************************************************************************)
(* The user-unpublished, user-joined and user-left listeners (229-255).    *)
(* The SDK keeps client.remoteUsers and each user's audioTrack.            *)
(***************************************************************************)
\* A listener that also cancels a playback-position loop of the session.
UserUnpublished_CancelsLoop(i, uid, mediaType) ==
    /\ client[i] # "null"
    /\ uid \in remoteUsers[i]
    /\ remoteAudio' = [remoteAudio EXCEPT
                         ![i] = IF mediaType = "audio" THEN @ \ {uid} ELSE @]
    /\ ptsLoops' = [ptsLoops EXCEPT
                       ![i] = IF mediaType = "audio" /\ @ > 0 THEN @ - 1 ELSE @]
    /\ Record(i, [Step("user-unpublished", i) EXCEPT
                    !.uid = uid, !.media = mediaType,
                    !.outcome = "returned",
                    !.sdk = <<"cancelAnimationFrame">>,
                    !.events = <<UserEvent("user-unpublished", uid, mediaType)>>])
    /\ UNCHANGED <<singleton, fields, timers, pending, remoteUsers, stopHistory>>

UserUnpublished(i, uid, mediaType) ==
    /\ client[i] # "null"
    /\ uid \in remoteUsers[i]
    /\ remoteAudio' = [remoteAudio EXCEPT
                         ![i] = IF mediaType = "audio" THEN @ \ {uid} ELSE @]
    /\ Record(i, [Step("user-unpublished", i) EXCEPT
                    !.uid = uid, !.media = mediaType,
                    !.outcome = "returned",
                    !.events = <<UserEvent("user-unpublished", uid, mediaType)>>])
    /\ UNCHANGED <<singleton, fields, timers, pending, remoteUsers, ptsLoops, stopHistory>>

UserJoined(i, uid) ==
    /\ client[i] # "null"
    /\ uid \notin remoteUsers[i]
    /\ remoteUsers' = [remoteUsers EXCEPT ![i] = @ \cup {uid}]
    /\ Record(i, [Step("user-joined", i) EXCEPT
                    !.uid = uid,
                    !.outcome = "returned",
                    !.events = <<UserEvent("user-joined", uid, "none")>>])
    /\ UNCHANGED <<singleton, fields, timers, pending, remoteAudio, ptsLoops, stopHistory>>

UserLeft(i, uid) ==
    /\ client[i] # "null"
    /\ uid \in remoteUsers[i]
    /\ remoteUsers' = [remoteUsers EXCEPT ![i] = @ \ {uid}]
    /\ remoteAudio' = [remoteAudio EXCEPT ![i] = @ \ {uid}]
    /\ Record(i, [Step("user-left", i) EXCEPT
                    !.uid = uid,
                    !.outcome = "returned",
                    !.events = <<UserEvent("user-left", uid, "none")>>])
    /\ UNCHANGED <<singleton, fields, timers, pending, ptsLoops, stopHistory>>

(***************************************************************************)
(* The network-quality, stream-message and exception listeners (270-289).  *)
(***************************************************************************)
NetworkQuality(i, uplink, downlink) ==
    /\ client[i] # "null"
    /\ Record(i, [Step("network-quality", i) EXCEPT
                    !.payload = <<uplink, downlink>>,
                    !.outcome = "returned",
                    !.events = <<NetworkQualityEvent(uplink, downlink)>>])
    /\ UNCHANGED <<singleton, fields, timers, pending, sdkState, stopHistory>>

StreamMessage(i, uid, stream) ==
    /\ client[i] # "null"
    /\ Record(i, [Step("stream-message", i) EXCEPT
                    !.uid = uid, !.payload = <<stream>>,
                    !.outcome = "returned",
                    !.events = <<StreamMessageEvent(uid, stream)>>])
    /\ UNCHANGED <<singleton, fields, timers, pending, sdkState, stopHistory>>

\* The listener of the claim that the exception callback becomes an event.
SdkException_Emits(i, event) ==
    /\ client[i] # "null"
    /\ Record(i, [Step("exception", i) EXCEPT
                    !.arg = event,
                    !.outcome = "returned",
                    !.events = <<ErrorEvent(event)>>])
    /\ UNCHANGED <<singleton, fields, timers, pending, sdkState, stopHistory>>

\* Lines 284-289: the listener logs an event that has keys and emits nothing.
SdkException(i, event) ==
    /\ client[i] # "null"
    /\ Record(i, [Step("exception", i) EXCEPT
                    !.arg = event,
                    !.outcome = "returned",
                    !.sdk = IF event # "{}" THEN <<"console.warn">> ELSE <<>>])
    /\ UNCHANGED <<singleton, fields, timers, pending, sdkState, stopHistory>>

(***************************************************************************)
(* One frame of a playback-position loop (lines 325-335): the track the    *)
(* loop was started with is set, so the frame emits and reschedules.       *)
(***************************************************************************)
PtsTick(i) ==
    /\ ptsLoops[i] > 0
    /\ Record(i, [Step("pts-tick", i) EXCEPT
                    !.outcome = "returned",
                    !.sdk = <<"audioTrack.getStats", "requestAnimationFrame">>,
                    !.events = <<Ev("audio-pts")>>])
    /\ UNCHANGED <<singleton, fields, timers, pending, sdkState, stopHistory>>

(***************************************************************************)
(* Spec: every public operation of one session object, with the SDK        *)
(* settling its promises either way, the connection-state-change callback  *)
(* and the volume interval.  The heap holds a single RTCHelper: after      *)
(* destroy() the object stays in use through the references handed out.    *)
(***************************************************************************)
Flags == {"true", "false"}

Next ==
    \/ GetInstance(1)
    \/ \E i \in 1..created : InitSession(i, ConfigA, Absent, Absent)
    \/ \E i \in 1..created : CreateAudioTrackCall(i)
    \/ \E i \in 1..created : CreateAudioTrackResolve(i)
    \/ \E i \in 1..created, err \in SdkErrors : CreateAudioTrackReject(i, err)
    \/ \E i \in 1..created : CreateVideoTrackCall(i)
    \/ \E i \in 1..created : CreateVideoTrackResolve(i)
    \/ \E i \in 1..created, err \in SdkErrors : CreateVideoTrackReject(i, err)
    \/ \E i \in 1..created : JoinCall(i)
    \/ \E i \in 1..created : JoinResolve(i)
    \/ \E i \in 1..created, err \in SdkErrors : JoinReject(i, err)
    \/ \E i \in 1..created : PublishCall(i)
    \/ \E i \in 1..created : PublishResolve(i)
    \/ \E i \in 1..created, err \in SdkErrors : PublishReject(i, err)
    \/ \E i \in 1..created : UnpublishCall(i)
    \/ \E i \in 1..created : UnpublishResolve(i)
    \/ \E i \in 1..created, err \in SdkErrors : UnpublishReject(i, err)
    \/ \E i \in 1..created : LeaveCall(i)
    \/ \E i \in 1..created : LeaveResolve(i)
    \/ \E i \in 1..created, err \in SdkErrors : LeaveReject(i, err)
    \/ \E i \in 1..created : Destroy(i)
    \/ \E i \in 1..created, muted \in Flags : SetMuted(i, muted)
    \/ \E i \in 1..created, enabled \in Flags : SetVideoEnabled(i, enabled)
    \/ \E i \in 1..created : GetRemoteUsers(i)
    \/ \E i \in 1..created, s \in SdkStrings : ConnectionStateChange(i, s)
    \/ \E i \in 1..created : VolumeTick(i)

Spec == Init /\ [][Next]_vars

(***************************************************************************)
(* SpecRemote: one initialized session and what the SDK tells it about the *)
(* remote participants, with every choice of the two predicates.           *)
(***************************************************************************)
NextRemote ==
    \/ GetInstance(1)
    \/ \E i \in 1..created, a \in Preds, v \in Preds :
          InitSession(i, ConfigA, a, v)
    \/ \E i \in 1..created, u \in Uids : UserJoined(i, u)
    \/ \E i \in 1..created, u \in Uids : UserLeft(i, u)
    \/ \E i \in 1..created, u \in Uids, m \in Media : UserPublished(i, u, m)
    \/ \E i \in 1..created, u \in Uids, m \in Media : SubscribeResolve(i, u, m)
    \/ \E i \in 1..created, u \in Uids, m \in Media, err \in SdkErrors :
          SubscribeReject(i, u, m, err)
    \/ \E i \in 1..created, u \in Uids, m \in Media : UserUnpublished(i, u, m)
    \/ \E i \in 1..created : PtsTick(i)
    \/ \E i \in 1..created, up \in Qualities, down \in Qualities :
          NetworkQuality(i, up, down)
    \/ \E i \in 1..created, u \in Uids, b \in Streams : StreamMessage(i, u, b)
    \/ \E i \in 1..created, e \in Exceptions : SdkException(i, e)

SpecRemote == Init /\ [][NextRemote]_vars

(***************************************************************************)
(* SpecSession: one session with its local audio track and its remote      *)
(* participants together.  The application awaits each of its calls before *)
(* it makes the next one; the SDK resolves the calls, reports on the       *)
(* remote audio at any moment, and both timers run.  init is given either  *)
(* configuration.                                                          *)
(***************************************************************************)
AllowAll == [present |-> TRUE, allow |-> Uids]
InitInputs == {<<ConfigA, Absent, Absent>>, <<ConfigB, AllowAll, AllowAll>>}

\* No call of the application is awaiting the SDK.
AppIdle == \A c \in BagToSet(pending) : c.op = "subscribe"

NextSession ==
    \/ GetInstance(1)
    \/ \E i \in 1..created, input \in InitInputs :
          InitSession(i, input[1], input[2], input[3])
    \/ \E i \in 1..created : AppIdle /\ CreateAudioTrackCall(i)
    \/ \E i \in 1..created : CreateAudioTrackResolve(i)
    \/ \E i \in 1..created : AppIdle /\ JoinCall(i)
    \/ \E i \in 1..created : JoinResolve(i)
    \/ \E i \in 1..created : AppIdle /\ PublishCall(i)
    \/ \E i \in 1..created : PublishResolve(i)
    \/ \E i \in 1..created : AppIdle /\ UnpublishCall(i)
    \/ \E i \in 1..created : UnpublishResolve(i)
    \/ \E i \in 1..created : AppIdle /\ LeaveCall(i)
    \/ \E i \in 1..created : LeaveResolve(i)
    \/ \E i \in 1..created : AppIdle /\ Destroy(i)
    \/ \E i \in 1..created : AppIdle /\ SetMuted(i, "true")
    \/ \E i \in 1..created : ConnectionStateChange(i, "RECONNECTING")
    \/ \E i \in 1..created : VolumeTick(i)
    \/ \E i \in 1..created, u \in Uids : UserJoined(i, u)
    \/ \E i \in 1..created, u \in Uids : UserLeft(i, u)
    \/ \E i \in 1..created, u \in Uids : UserPublished(i, u, "audio")
    \/ \E i \in 1..created, u \in Uids : SubscribeResolve(i, u, "audio")
    \/ \E i \in 1..created, u \in Uids : UserUnpublished(i, u, "audio")
    \/ \E i \in 1..created : PtsTick(i)

SpecSession == Init /\ [][NextSession]_vars

(***************************************************************************)
(* SpecDestroy: one session with listeners, destroyed at any moment, also  *)
(* while a call is awaiting the SDK, and everything that can emit          *)
(* afterwards: the leave() destroy() started, the call that was in flight, *)
(* later calls through a reference kept, the SDK callbacks and both        *)
(* timers.  Apart from destroy(), the application awaits each call.        *)
(***************************************************************************)
NextDestroy ==
    \/ GetInstance(1)
    \/ \E i \in 1..created, l \in Listeners : On(i, l)
    \/ \E i \in 1..created : InitSession(i, ConfigA, Absent, Absent)
    \/ \E i \in 1..created : Destroy(i)
    \/ \E i \in 1..created : AppIdle /\ CreateAudioTrackCall(i)
    \/ \E i \in 1..created : CreateAudioTrackResolve(i)
    \/ \E i \in 1..created : AppIdle /\ JoinCall(i)
    \/ \E i \in 1..created : JoinResolve(i)
    \/ \E i \in 1..created : JoinReject(i, "ERR_A")
    \/ \E i \in 1..created : AppIdle /\ PublishCall(i)
    \/ \E i \in 1..created : PublishResolve(i)
    \/ \E i \in 1..created : LeaveResolve(i)
    \/ \E i \in 1..created : ConnectionStateChange(i, "RECONNECTING")
    \/ \E i \in 1..created : VolumeTick(i)
    \/ \E i \in 1..created, u \in Uids : UserJoined(i, u)
    \/ \E i \in 1..created, u \in Uids : UserPublished(i, u, "audio")
    \/ \E i \in 1..created, u \in Uids : SubscribeResolve(i, u, "audio")
    \/ \E i \in 1..created : PtsTick(i)

SpecDestroy == Init /\ [][NextDestroy]_vars

(***************************************************************************)
(* SpecSingleton: the life cycle of the singleton.  Callers reach the      *)
(* session through getInstance(), except that destroy() is also called     *)
(* through references handed out earlier, and that the methods suspended   *)
(* on an object resume after it was destroyed.                             *)
(***************************************************************************)
Current == IF instance = 0 THEN {} ELSE {instance}

NextSingleton ==
    \/ GetInstance(MaxInst)
    \/ \E i \in 1..created : Destroy(i)
    \/ \E i \in Current : InitSession(i, ConfigA, Absent, Absent)
    \/ \E i \in Current : CreateAudioTrackCall(i)
    \/ \E i \in 1..created : CreateAudioTrackResolve(i)
    \/ \E i \in Current : JoinCall(i)
    \/ \E i \in 1..created : JoinResolve(i)
    \/ \E i \in Current : PublishCall(i)
    \/ \E i \in 1..created : PublishResolve(i)
    \/ \E i \in 1..created : LeaveResolve(i)

SpecSingleton == Init /\ [][NextSingleton]_vars

(***************************************************************************)
(* Claims.  `last` is the step just taken; primed in an action formula, it *)
(* is the step being taken, and the unprimed variables are the state the   *)
(* step starts from.                                                       *)
(***************************************************************************)
IsCSC(e) == e.type = "connection-state-changed"

\* The states of the CONNECTION_STATE_CHANGED events of a step, in order.
StatesOf(events) ==
    LET cs == SelectSeq(events, IsCSC)
    IN  [k \in 1..Len(cs) |-> cs[k].state]

\* C1: in the sequence of CONNECTION_STATE_CHANGED events of a session no
\* two consecutive events carry the same state, and a step that calls
\* setConnectionState with the current state emits no such event and leaves
\* the state as it is.
C1_NoRepeatedStateEvent ==
    [][LET i == last'.inst
           seq == <<lastCSC[i]>> \o StatesOf(last'.events)
       IN  last'.set # "none" =>
             /\ \A k \in 1..(Len(seq) - 1) : seq[k] # seq[k + 1]
             /\ last'.set = connectionState[i] =>
                  /\ StatesOf(last'.events) = <<>>
                  /\ connectionState'[i] = connectionState[i]]_vars

\* C1 witness: setConnectionState was called with the state the latest
\* event already carried, and nothing was emitted.
C1_Witness ==
    /\ last.set # "none"
    /\ last.events = <<>>
    /\ lastCSC[last.inst] = last.set
    /\ connectionState[last.inst] = last.set

\* C2: a session never has more than one live volume interval, and the live
\* interval is the one volumeIntervalRef holds.
C2_AtMostOneVolumeTimer ==
    \A i \in Insts :
        /\ Cardinality(timers[i]) <= 1
        /\ timers[i] = IF volumeIntervalRef[i] = 0 THEN {} ELSE {volumeIntervalRef[i]}

\* C2 witness: a publish() resolved while the interval was already running
\* (startVolumeMonitoring made no setInterval call), with another publish()
\* still in flight.
C2_Witness ==
    /\ last.op = "publish.resolve"
    /\ last.sdk = <<>>
    /\ timers[last.inst] # {}
    /\ InFlight(Await(last.inst, "publish"))

\* C3 (as claimed): once an unpublish() or leave() has finished, no tick of
\* the volume interval emits VOLUME_INDICATOR until publish() is called
\* again (read in the claim's favour: called after that unpublish() or
\* leave() was).
C3_NoVolumeAfterStop ==
    ~(/\ last.op = "volume-tick"
      /\ last.events # <<>>
      /\ quiet[last.inst])

\* C4 (as claimed): when a leave() on an initialized session has finished,
\* resolved or rejected, both local tracks are null and the connection state
\* is disconnected.
C4_LeaveAlwaysResets ==
    last.op \in {"leave.resolve", "leave.reject"} =>
        /\ localAudioTrack[last.inst] = "null"
        /\ localVideoTrack[last.inst] = "null"
        /\ connectionState[last.inst] = "disconnected"

\* C5: join() on an initialized session sets the state to connecting and
\* calls the SDK; when the SDK join resolves the state is connected and no
\* ERROR is emitted; when it rejects the state is failed, exactly one ERROR
\* carrying the error the caller gets is emitted, as the last event of the
\* step (after the change to failed), and the call is rejected with it.
C5_JoinOutcomes ==
    LET i == last.inst
    IN  /\ (last.op = "join" /\ last.outcome # "threw") =>
              /\ connectionState[i] = "connecting"
              /\ last.sdk = <<"client.join">>
              /\ EventsOf(last.events, "error") = <<>>
        /\ last.op = "join.resolve" =>
              /\ connectionState[i] = "connected"
              /\ last.outcome = "resolved"
              /\ EventsOf(last.events, "error") = <<>>
        /\ last.op = "join.reject" =>
              /\ connectionState[i] = "failed"
              /\ last.outcome = "rejected"
              /\ last.error \in SdkErrors
              /\ EventsOf(last.events, "error") = <<ErrorEvent(last.error)>>
              /\ last.events[Len(last.events)] = ErrorEvent(last.error)

\* C5 witness: a join was rejected, the state changed to failed and the
\* ERROR followed.
C5_Witness ==
    /\ last.op = "join.reject"
    /\ last.events = <<StateChanged("failed"), ErrorEvent(last.error)>>

\* The predicate of a media type, as stored by init.
PredicateOf(i, mediaType) ==
    IF mediaType = "audio" THEN shouldSubscribeAudio[i] ELSE shouldSubscribeVideo[i]

\* Every subscription in flight, and the one that just resolved, is one
\* the predicate of its media type allows.
OnlyAllowedSubscriptions ==
    /\ \A c \in BagToSet(pending) :
          c.op = "subscribe" => Consult(PredicateOf(c.inst, c.media), c.uid)
    /\ last.op = "subscribe.resolve" =>
          Consult(PredicateOf(last.inst, last.media), last.uid)

\* C6: a user-published callback whose predicate returns false for the uid
\* calls nothing, emits nothing, suspends on no subscription and starts no
\* playback-position loop; so no subscription is ever in flight or resolved
\* (the step that emits USER_PUBLISHED and starts the loop) for a uid and
\* media type the predicate denies.
C6_DeniedPublishDoesNothing ==
    /\ []OnlyAllowedSubscriptions
    /\ [][(/\ last'.op = "user-published"
           /\ ~Consult(PredicateOf(last'.inst, last'.media), last'.uid))
          => /\ last'.sdk = <<>>
             /\ last'.events = <<>>
             /\ pending' = pending
             /\ ptsLoops' = ptsLoops
             /\ remoteAudio' = remoteAudio]_vars

\* C6 witness: a callback was denied by its predicate.
C6_Witness ==
    /\ last.op = "user-published"
    /\ ~Consult(PredicateOf(last.inst, last.media), last.uid)
    /\ last.outcome = "returned"

\* C7: a user-published callback subscribes exactly when the predicate of
\* its own media type is absent or returns true, whatever the predicate of
\* the other media type says.
C7_PredicatesGateIndependently ==
    [][last'.op = "user-published" =>
         LET i == last'.inst
             c == Call(i, "subscribe", last'.uid, last'.media)
         IN  IF Consult(PredicateOf(i, last'.media), last'.uid)
             THEN /\ last'.sdk = <<"client.subscribe">>
                  /\ pending' = pending (+) SetToBag({c})
             ELSE /\ last'.sdk = <<>>
                  /\ pending' = pending]_vars

\* C7 witness: audio was subscribed with no audio predicate while the video
\* predicate denies the same uid.
C7_Witness ==
    /\ last.op = "user-published"
    /\ last.media = "audio"
    /\ last.sdk = <<"client.subscribe">>
    /\ ~shouldSubscribeAudio[last.inst].present
    /\ ~Consult(shouldSubscribeVideo[last.inst], last.uid)

\* C8 (as claimed): getInstance() returns the object it returned before
\* unless destroy() has been called on that object; and then it returns an
\* object that did not exist before, in the state of a new RTCHelper.
C8_SameUntilDestroyed ==
    [][(last'.op = "getInstance" /\ got # 0) =>
         IF got \notin destroyed
         THEN last'.inst = got
         ELSE /\ last'.inst \notin 1..created
              /\ client'[last'.inst] = "null"
              /\ localAudioTrack'[last'.inst] = "null"
              /\ localVideoTrack'[last'.inst] = "null"
              /\ connectionState'[last'.inst] = "disconnected"
              /\ volumeIntervalRef'[last'.inst] = 0
              /\ timers'[last'.inst] = {}]_vars

\* What every fail-fast path leaves alone.
NoEffect ==
    /\ last'.sdk = <<>>
    /\ last'.events = <<>>
    /\ UNCHANGED <<instance, created, fields, timers, pending, sdkState>>

\* C9: an operation called without the client or track it needs raises
\* (join, publish) or returns (unpublish, leave, setMuted, setVideoEnabled)
\* and calls nothing, emits nothing and changes nothing; getRemoteUsers
\* returns the empty list.
C9_FailFast ==
    [][LET s == last'
           i == last'.inst
           noAudio == client[i] = "null" \/ localAudioTrack[i] = "null"
       IN  /\ (s.op = "join" /\ client[i] = "null") =>
                 s.outcome = "threw" /\ NoEffect
           /\ (s.op = "publish" /\ noAudio) =>
                 s.outcome = "threw" /\ NoEffect
           /\ (s.op = "unpublish" /\ noAudio) =>
                 s.outcome = "returned" /\ NoEffect
           /\ (s.op = "leave" /\ client[i] = "null") =>
                 s.outcome = "returned" /\ NoEffect
           /\ (s.op = "setMuted" /\ localAudioTrack[i] = "null") =>
                 s.outcome = "returned" /\ NoEffect
           /\ (s.op = "setVideoEnabled" /\ localVideoTrack[i] = "null") =>
                 s.outcome = "returned" /\ NoEffect
           /\ (s.op = "getRemoteUsers" /\ client[i] = "null") =>
                 s.ret = {} /\ NoEffect]_vars

\* C9 witness: unpublish() returned early on an initialized session whose
\* track leave() had cleared, and left the running volume interval alone.
C9_Witness ==
    /\ last.op = "unpublish"
    /\ last.outcome = "returned"
    /\ last.sdk = <<>>
    /\ client[last.inst] # "null"
    /\ localAudioTrack[last.inst] = "null"
    /\ timers[last.inst] # {}

\* The table of the claim, with everything else going to disconnected.
ClaimedMapping(curState) ==
    CASE curState = "DISCONNECTED" -> "disconnected"
      [] curState = "CONNECTING" -> "connecting"
      [] curState = "CONNECTED" -> "connected"
      [] curState = "RECONNECTING" -> "reconnecting"
      [] curState = "DISCONNECTING" -> "disconnected"
      [] OTHER -> "disconnected"

\* C10 (as claimed): the connection-state-change callback applies the value
\* the table gives, disconnected for every string that is no key of it, and
\* never makes the state failed.
C10_MappedThroughTable ==
    last.op = "connection-state-change" =>
        /\ last.set = ClaimedMapping(last.arg)
        /\ connectionState[last.inst] = ClaimedMapping(last.arg)
        /\ connectionState[last.inst] # "failed"

(***************************************************************************)
(* C11: the connection state is written only by setConnectionState, so in  *)
(* every reachable state getConnectionState() is the state carried by the  *)
(* latest CONNECTION_STATE_CHANGED event of the session, or disconnected   *)
(* when it emitted none, and it is one of the five states of CS.           *)
(***************************************************************************)
getConnectionState(i) == connectionState[i]

C11_StateIsLastAnnounced ==
    \A i \in Insts :
        /\ getConnectionState(i) =
               IF lastCSC[i] = "none" THEN "disconnected" ELSE lastCSC[i]
        /\ getConnectionState(i) \in CS

(***************************************************************************)
(* C12: the user-unpublished, user-joined, user-left, network-quality and  *)
(* stream-message callbacks each emit exactly one event, the one of the    *)
(* same name, carrying the uid, media type and payload of the callback;    *)
(* the exception callback emits no event at all (it is logged when it has  *)
(* keys).                                                                  *)
(***************************************************************************)
OneToOne == {"user-unpublished", "user-joined", "user-left",
             "network-quality", "stream-message"}

ConvertedOnce(step) ==
    step.events = <<[Ev(step.op) EXCEPT !.uid = step.uid,
                                        !.media = step.media,
                                        !.payload = step.payload]>>

C12_CallbacksBecomeEvents ==
    /\ last.op \in OneToOne => ConvertedOnce(last)
    /\ last.op = "exception" =>
          /\ last.events = <<>>
          /\ last.sdk = IF last.arg = "{}" THEN <<>> ELSE <<"console.warn">>

C12_Witness ==
    /\ last.op = "exception"
    /\ last.arg = "event"
    /\ last.sdk = <<"console.warn">>
    /\ last.events = <<>>

\* C12 as stated: the exception callback yields a local error event too.
C12_ExceptionBecomesError ==
    /\ last.op \in OneToOne => ConvertedOnce(last)
    /\ last.op = "exception" =>
          /\ Len(last.events) = 1
          /\ last.events[1].type = "error"

(***************************************************************************)
(* C13: a step that makes a session let go of a local track it holds, by   *)
(* clearing the reference or by storing a newly created track over it,     *)
(* stops and closes that track.  The SDK returns a new track object from   *)
(* every create call, so the step that resumes createAudioTrack or         *)
(* createVideoTrack always replaces the reference it finds.                *)
(***************************************************************************)
StopsAndCloses(calls, field) ==
    /\ \E k \in 1..Len(calls) : calls[k] = field \o ".stop"
    /\ \E k \in 1..Len(calls) : calls[k] = field \o ".close"

LetsGo(i, before, after, createOp) ==
    /\ before # "null"
    /\ \/ after = "null"
       \/ last'.op = createOp /\ last'.inst = i

C13_TracksClosedBeforeDropped ==
    [][\A i \in Insts :
          /\ LetsGo(i, localAudioTrack[i], localAudioTrack'[i],
                    "createAudioTrack.resolve")
                => StopsAndCloses(last'.sdk, "localAudioTrack")
          /\ LetsGo(i, localVideoTrack[i], localVideoTrack'[i],
                    "createVideoTrack.resolve")
                => StopsAndCloses(last'.sdk, "localVideoTrack")]_vars

(***************************************************************************)
(* C14: a tick of the volume timer on a session that has a client takes    *)
(* one sample of the local audio track, if there is one, under the uid of  *)
(* the session, and one sample of each remote user that has an audio       *)
(* track, and emits exactly one VOLUME_INDICATOR carrying all of them; a   *)
(* tick that takes no sample, or finds no client, emits nothing.  A tick   *)
(* changes none of the fields it reads, so the state after the tick shows  *)
(* what it read.                                                           *)
(***************************************************************************)
SamplesOf(batch, u) == Cardinality({k \in 1..Len(batch) : batch[k] = u})

SamplesDue(i, u) ==
    (IF u = sessionUid[i] /\ localAudioTrack[i] # "null" THEN 1 ELSE 0)
    + (IF u \in remoteAudio[i] THEN 1 ELSE 0)

IsBatchOf(i, batch) ==
    /\ \A k \in 1..Len(batch) : batch[k] \in Uids \cup {sessionUid[i]}
    /\ \A u \in Uids \cup {sessionUid[i]} : SamplesOf(batch, u) = SamplesDue(i, u)

C15_LoopsNeverStop ==
    [][\A i \in Insts :
          /\ ptsLoops'[i] >= ptsLoops[i]
          /\ (last'.inst = i /\ last'.op = "subscribe.resolve"
                             /\ last'.media = "audio")
                => ptsLoops'[i] = ptsLoops[i] + 1
          /\ (last'.inst = i /\ last'.op = "pts-tick")
                => /\ Calls(last', "requestAnimationFrame")
                   /\ ptsLoops'[i] = ptsLoops[i]]_vars

\* A frame of a loop runs on a session that was destroyed, whose remote
\* users have all left.
C15_Witness ==
    /\ last.op = "pts-tick"
    /\ last.inst \in destroyed
    /\ remoteUsers[last.inst] = {}
    /\ ptsLoops[last.inst] = MaxLoops

(***************************************************************************)
(* C16: the configuration of a session (appId, channel, token, uid and the *)
(* two predicates) is what init was given, no step other than init changes *)
(* it, and join passes the stored appId, channel, token and uid to         *)
(* client.join.                                                            *)
(***************************************************************************)
StoredConfig(i) == [appId |-> appId[i], channel |-> channel[i],
                    token |-> token[i], uid |-> sessionUid[i]]

C16_ConfigWrittenOnce ==
    [][\A i \in Insts :
          /\ IF last'.op = "init" /\ last'.inst = i
             THEN StoredConfig(i)' = last'.args
             ELSE /\ StoredConfig(i)' = StoredConfig(i)
                  /\ shouldSubscribeAudio'[i] = shouldSubscribeAudio[i]
                  /\ shouldSubscribeVideo'[i] = shouldSubscribeVideo[i]
          /\ (last'.op = "join" /\ last'.inst = i /\ Calls(last', "client.join"))
                => last'.args = StoredConfig(i)]_vars

\* join passes the configuration of init on a session that was destroyed
\* since, after an unpublish() and while remote audio is playing.
C16_Witness ==
    /\ last.op = "join"
    /\ last.outcome = "pending"
    /\ last.args = ConfigA
    /\ StoredConfig(last.inst) = ConfigA
    /\ last.inst \in destroyed
    /\ quiet[last.inst]
    /\ ptsLoops[last.inst] > 0

(***************************************************************************)
(* C17: in every reachable state, a session whose volume timer is running  *)
(* holds a local audio track.  (The claim adds that the SDK has this track *)
(* published; holding it is the part the fields of the session decide.)    *)
(***************************************************************************)
C17_TimerImpliesTrack ==
    \A i \in Insts : timers[i] # {} => localAudioTrack[i] # "null"

(***************************************************************************)
(* C18: from the moment a leave() of an initialized session has resolved,  *)
(* and until join() is called again or the SDK delivers a                  *)
(* connection-state-change, the connection state of the session is         *)
(* disconnected, whatever was in flight when leave() was called.           *)
(***************************************************************************)
C18_StaysDisconnectedAfterLeave ==
    \A i \in Insts : left[i] => connectionState[i] = "disconnected"

(***************************************************************************)
(* C19: USER_PUBLISHED is emitted, and a playback-position loop started,   *)
(* only by the step that resumes the user-published listener when the      *)
(* client.subscribe it awaited has resolved; in that step the event comes  *)
(* first and everything the loop emits comes after it; and the step taken  *)
(* when client.subscribe rejects emits nothing, calls nothing and starts   *)
(* no loop.                                                                *)
(***************************************************************************)
C19_PublishedOnlyAfterSubscribe ==
    [][LET s == last'
           announces == EventsOf(s.events, "user-published") # <<>>
           startsLoop == ptsLoops' # ptsLoops
       IN  /\ (announces \/ startsLoop)
                 => /\ s.op = "subscribe.resolve"
                    /\ InFlight(Call(s.inst, "subscribe", s.uid, s.media))
                    /\ s.events[1] = UserEvent("user-published", s.uid, s.media)
                    /\ \A k \in 2..Len(s.events) : s.events[k].type = "audio-pts"
           /\ startsLoop => announces /\ s.media = "audio"
           /\ s.op = "subscribe.reject"
                 => /\ s.events = <<>>
                    /\ s.sdk = <<>>
                    /\ ~startsLoop]_vars

\* An audio subscription that a predicate allowed has resolved: the event,
\* then the first frame of the loop.
C19_Witness ==
    /\ last.op = "subscribe.resolve"
    /\ last.media = "audio"
    /\ shouldSubscribeAudio[last.inst].present
    /\ last.events = <<UserEvent("user-published", last.uid, "audio"),
                       Ev("audio-pts")>>
    /\ ptsLoops[last.inst] > 0

(***************************************************************************)
(* C20: no event a session emits is received by a listener that was        *)
(* registered on it when destroy() was called on it: not the events of the *)
(* leave() that destroy() started, nor those of calls in flight, of later  *)
(* SDK callbacks or of the timers.                                         *)
(***************************************************************************)
C20_DetachedForGood ==
    \A i \in Insts : last.inst = i => last.delivered \cap detached[i] = {}

\* The leave() that destroy() started resolves and announces disconnected:
\* the listener registered since receives it, the detached one does not.
C20_Witness ==
    /\ last.op = "leave.resolve"
    /\ last.inst \in destroyed
    /\ last.events = <<StateChanged("disconnected")>>
    /\ detached[last.inst] # {}
    /\ last.delivered # {}

====
